---- MODULE Spec2Model ----
(***************************************************************************)
(* A model of saf_veclib.c: the vector primitives and the LAPACK/BLAS      *)
(* drivers (SVD, eigendecompositions, linear solvers, pseudo-inverse,      *)
(* inverse).  The backend kernels are a black box: every value a backend   *)
(* routine writes (status, workspace size, factors) is chosen              *)
(* nondeterministically.  Buffers are sequences; every C index is          *)
(* 0-based and is turned into a sequence position by adding one.  Sizes    *)
(* are counted in 4-byte words, so that sizeof() keeps its meaning.        *)
(***************************************************************************)
EXTENDS Integers, Sequences, FiniteSets, TLC

VARIABLES
    build,   \* which preprocessor branch the file was compiled with
    fn,      \* the entry point being executed, "idle" between calls
    pc,      \* position inside the entry point
    arg,     \* scalar arguments of the call in progress, and its buffers on entry
    cbuf,    \* caller-owned buffers, by parameter name
    hnd,     \* the caller's U, S, V handles of utility_ssvd (block ids)
    heap,    \* malloc'ed blocks: id -> [st, sz, nfree, data]
    loc,     \* local pointer variables of the call: name -> block id
    info,    \* the backend's status of the last backend call
    wkopt,   \* workspace size the last query returned
    calls,   \* backend calls of the call in progress: <<routine, lwork, status>>
    ndiv,    \* divisions performed by the call in progress
    fault    \* memory errors of the call in progress

vars == <<build, fn, pc, arg, cbuf, hnd, heap, loc, info, wkopt, calls, ndiv, fault>>

----------------------------------------------------------------------------
(* Bounds of the model *)

MaxDim == 2
MaxLen == 2
MaxSortLen == 3

Dims == 1..MaxDim
Lens == 0..MaxLen

----------------------------------------------------------------------------
(* C scalars and sizes *)

NULL == 0
SizeofFloat == 1
SizeofInt == 1
SizeofDouble == 2
SizeofComplex == 2

\* an uninitialised word
Undef == -99

MIN(a, b) == IF a < b THEN a ELSE b

UndefOf(sz) == IF sz = 1 THEN Undef ELSE <<Undef, Undef>>
ZeroOf(sz) == IF sz = 1 THEN 0 ELSE <<0, 0>>

\* a caller buffer is absent (a null pointer) or holds a sequence
NullBuf == [null |-> TRUE, data |-> <<>>]
Buf(seq) == [null |-> FALSE, data |-> seq]

CBufNames == {"A", "B", "X", "V", "D", "VL", "VR", "inM", "outM", "a", "b", "c", "s"}
NoBufs == [n \in CBufNames |-> NullBuf]

LocNames == {"a", "s", "u", "vt", "work", "w", "vl", "vr", "rwork", "wr",
             "sort_idx", "data", "IPIV", "b", "inva", "WORK", "tmp", "out_vec"}
NoLocs == [n \in LocNames |-> NULL]

NoArg == [dim1 |-> 0, dim2 |-> 0, flag |-> 0, entry |-> <<>>]

----------------------------------------------------------------------------
(* Memory.  m is the record [heap, loc, hnd, bufs, fault] that the         *)
(* statements of one step are applied to, one after the other.             *)

Machine == [heap |-> heap, loc |-> loc, hnd |-> hnd, bufs |-> cbuf, fault |-> fault]

Commit(m) ==
    /\ heap' = m.heap /\ loc' = m.loc /\ hnd' = m.hnd
    /\ cbuf' = m.bufs /\ fault' = m.fault

\* the id of a block malloc has not handed out yet
FreshId(h) == CHOOSE i \in 1..(Cardinality(DOMAIN h) + 1) : i \notin DOMAIN h

\* p = malloc(words): a block of words \div sz elements, contents undefined
NewBlock(words, sz) ==
    [st |-> "live", sz |-> sz, nfree |-> 0,
     data |-> [k \in 1..(words \div sz) |-> UndefOf(sz)]]

Malloc(m, name, words, sz) ==
    LET id == FreshId(m.heap)
    IN  [m EXCEPT !.heap = (id :> NewBlock(words, sz)) @@ m.heap,
                  !.loc[name] = id]

\* (*h) = malloc(words) / calloc(words) for one of the caller's handles
MallocH(m, h, words, sz) ==
    LET id == FreshId(m.heap)
    IN  [m EXCEPT !.heap = (id :> NewBlock(words, sz)) @@ m.heap, !.hnd[h] = id]

\* calloc: the block is zero-filled
CallocH(m, h, words, sz) ==
    LET id == FreshId(m.heap)
        blk == [NewBlock(words, sz) EXCEPT !.data = [k \in DOMAIN @ |-> ZeroOf(sz)]]
    IN  [m EXCEPT !.heap = (id :> blk) @@ m.heap, !.hnd[h] = id]

IsLive(h, id) == id \in DOMAIN h /\ h[id].st = "live"

\* free(p): free(NULL) does nothing; freeing a block that is not live is an error
FreeId(m, id) ==
    IF id = NULL THEN m
    ELSE IF IsLive(m.heap, id)
         THEN [m EXCEPT !.heap[id].st = "freed", !.heap[id].nfree = 1]
    ELSE IF id \in DOMAIN m.heap
         THEN [m EXCEPT !.heap[id].nfree = @ + 1,
                        !.fault = @ \cup {"double_free"}]
    ELSE [m EXCEPT !.fault = @ \cup {"bad_free"}]

\* free(*U); free(*S); free(*V);
FreeHandles(m) == FreeId(FreeId(FreeId(m, m.hnd.U), m.hnd.S), m.hnd.V)

\* free(p) for each of the named local pointers, one after the other
FreeAll(m, names) ==
    LET ids == [i \in 1..Len(names) |-> m.loc[names[i]]]
        cnt == [id \in DOMAIN m.heap |-> Cardinality({i \in 1..Len(names) : ids[i] = id})]
    IN  [m EXCEPT
          !.heap = [id \in DOMAIN m.heap |->
                      IF cnt[id] = 0 THEN m.heap[id]
                      ELSE [m.heap[id] EXCEPT
                              !.st = "freed",
                              !.nfree = IF m.heap[id].st = "live" THEN cnt[id]
                                        ELSE @ + cnt[id]]],
          !.fault = @ \cup
              (IF \E id \in DOMAIN m.heap :
                      cnt[id] > 0 /\ (m.heap[id].st # "live" \/ cnt[id] > 1)
               THEN {"double_free"} ELSE {})
              \cup
              (IF \E i \in 1..Len(names) : ids[i] # NULL /\ ids[i] \notin DOMAIN m.heap
               THEN {"bad_free"} ELSE {})]

\* an access to the elements idxs (0-based) of block id
Access(m, id, idxs) ==
    IF idxs = {} THEN m
    ELSE IF id = NULL THEN [m EXCEPT !.fault = @ \cup {"null_deref"}]
    ELSE IF ~IsLive(m.heap, id) THEN [m EXCEPT !.fault = @ \cup {"use_after_free"}]
    ELSE IF \E k \in idxs : k < 0 \/ k >= Len(m.heap[id].data)
         THEN [m EXCEPT !.fault = @ \cup {"out_of_bounds"}]
    ELSE m

\* an access to the elements idxs of the block a local pointer names
AccessL(m, name, idxs) == Access(m, m.loc[name], idxs)

\* an access to the elements idxs (0-based) of a caller buffer
AccessC(m, bname, idxs) ==
    IF idxs = {} THEN m
    ELSE IF m.bufs[bname].null THEN [m EXCEPT !.fault = @ \cup {"null_deref"}]
    ELSE IF \E k \in idxs : k < 0 \/ k >= Len(m.bufs[bname].data)
         THEN [m EXCEPT !.fault = @ \cup {"out_of_bounds"}]
    ELSE m

\* the contents of the block a local pointer names
Data(m, name) ==
    IF m.loc[name] \in DOMAIN m.heap THEN m.heap[m.loc[name]].data ELSE <<>>

\* dst[d] = src[s] for every pair <<d, s>> of a copy loop (0-based indices);
\* an index outside either sequence moves nothing (the access reports it)
Scatter(dst, src, pairs) ==
    LET hit == [k \in 1..Len(dst) |->
                  {p \in pairs : p[1] = k - 1 /\ p[2] + 1 \in 1..Len(src)}]
    IN  [k \in 1..Len(dst) |->
            IF hit[k] = {} THEN dst[k]
            ELSE src[(CHOOSE p \in hit[k] : TRUE)[2] + 1]]

DstIdx(pairs) == {p[1] : p \in pairs}
SrcIdx(pairs) == {p[2] : p \in pairs}

\* the stores of a loop into a local block / a handle's block / a caller buffer
PutL(m, name, src, pairs) ==
    IF m.loc[name] \in DOMAIN m.heap
    THEN [m EXCEPT !.heap[m.loc[name]].data = Scatter(@, src, pairs)]
    ELSE m
PutH(m, h, src, pairs) ==
    IF m.hnd[h] \in DOMAIN m.heap
    THEN [m EXCEPT !.heap[m.hnd[h]].data = Scatter(@, src, pairs)]
    ELSE m
PutC(m, bname, src, pairs) ==
    IF m.bufs[bname].null THEN m
    ELSE [m EXCEPT !.bufs[bname].data = Scatter(@, src, pairs)]

\* a store loop into a local block / caller buffer from values computed on the way
StoreLoc(m, name, src, pairs) == PutL(AccessL(m, name, DstIdx(pairs)), name, src, pairs)
StoreC(m, bname, src, pairs) == PutC(AccessC(m, bname, DstIdx(pairs)), bname, src, pairs)

\* a copy loop from a caller buffer into a local block
CopyIn(m, name, bname, pairs) ==
    PutL(AccessL(AccessC(m, bname, SrcIdx(pairs)), name, DstIdx(pairs)),
         name, m.bufs[bname].data, pairs)

\* a copy loop from a local block into the block a handle points to
CopyOutH(m, h, sname, pairs) ==
    PutH(Access(AccessL(m, sname, SrcIdx(pairs)), m.hnd[h], DstIdx(pairs)),
         h, Data(m, sname), pairs)

\* a copy loop from a local block into a caller buffer
CopyOutC(m, bname, sname, pairs) ==
    PutC(AccessC(AccessL(m, sname, SrcIdx(pairs)), bname, DstIdx(pairs)),
         bname, Data(m, sname), pairs)

\* memset(p, 0, words) on a sequence of sz-word elements: the first `words`
\* words become zero; an element only partly covered keeps its other word
MemsetSeq(seq, words, sz) ==
    [k \in 1..Len(seq) |->
        IF sz = 1
        THEN IF k - 1 < words THEN 0 ELSE seq[k]
        ELSE << IF 2 * (k - 1) < words THEN 0 ELSE seq[k][1],
                IF 2 * (k - 1) + 1 < words THEN 0 ELSE seq[k][2] >>]

\* memset(buf, 0, words) on a caller buffer of sz-word elements
MemsetC(m, bname, words, sz) ==
    LET m1 == AccessC(m, bname, {k \in 0..words : k * sz < words})
    IN  IF m.bufs[bname].null THEN m1
        ELSE [m1 EXCEPT !.bufs[bname].data = MemsetSeq(@, words, sz)]

\* a backend routine writes the sequence `out` into the local block `name`
BackendWrite(m, name, out) ==
    LET m1 == AccessL(m, name, 0..(Len(out) - 1))
        id == m.loc[name]
    IN  IF id \in DOMAIN m.heap
        THEN [m1 EXCEPT !.heap[id].data =
                 [k \in 1..Len(@) |-> IF k <= Len(out) THEN out[k] ELSE @[k]]]
        ELSE m1

\* a backend routine reads the first n elements of the local block `name`
BackendRead(m, name, n) == AccessL(m, name, 0..(n - 1))

\* a backend routine overwrites the caller buffer `bname` in place
BackendWriteC(m, bname, out) ==
    LET m1 == AccessC(m, bname, 0..(Len(out) - 1))
    IN  IF m.bufs[bname].null THEN m1
        ELSE [m1 EXCEPT !.bufs[bname].data =
                 [k \in 1..Len(@) |-> IF k <= Len(out) THEN out[k] ELSE @[k]]]

----------------------------------------------------------------------------
(* What the backend may return *)

\* the backend's results are drawn from these families of values
Seeds == {1, 2}

\* a buffer of n distinct non-zero values: floats or ints (sz = 1), complex
\* floats or doubles (sz = 2, two words each)
PatOf(sz, n, base) ==
    [k \in 1..n |-> IF sz = 1 THEN base + k ELSE <<base + k, base + 50 + k>>]

InfoVals == {-1, 0, 1}
WorkSizes == {1, 3}

----------------------------------------------------------------------------
(* utility_ssvd *)

\* a[j*dim1+i] = A[i*dim2+j]
ssvd_aPairs(dim1, dim2) ==
    {<<j * dim1 + i, i * dim2 + j>> : i \in 0..(dim1 - 1), j \in 0..(dim2 - 1)}
\* U copied without the transposition
ssvd_UPairs_plain(dim1) ==
    {<<i * dim1 + j, i * dim1 + j>> : i \in 0..(dim1 - 1), j \in 0..(dim1 - 1)}
\* (*U)[i*dim1+j] = u[j*dim1+i]
ssvd_UPairs(dim1) ==
    {<<i * dim1 + j, j * dim1 + i>> : i \in 0..(dim1 - 1), j \in 0..(dim1 - 1)}
\* (*S)[i*dim2+i] = s[i]
ssvd_SPairs(dim1, dim2) ==
    {<<i * dim2 + i, i>> : i \in 0..(MIN(dim1, dim2) - 1)}
\* (*V)[i*dim2+j] = vt[i*dim2+j]
ssvd_VPairs(dim2) ==
    {<<i * dim2 + j, i * dim2 + j>> : i \in 0..(dim2 - 1), j \in 0..(dim2 - 1)}

\* the four mallocs and the copy into column-major order
ssvd_setup(m0, dim1, dim2) ==
    LET m == dim1  n == dim2  lda == dim1  ldu == dim1  ldvt == dim2
    IN  CopyIn(Malloc(Malloc(Malloc(Malloc(m0,
            "a", lda * n * SizeofFloat, SizeofFloat),
            "s", MIN(n, m) * SizeofFloat, SizeofFloat),
            "u", ldu * m * SizeofFloat, SizeofFloat),
            "vt", ldvt * n * SizeofFloat, SizeofFloat),
            "a", "A", ssvd_aPairs(dim1, dim2))

ssvd_alloc ==
    /\ fn = "idle"
    /\ \E dim1 \in Dims, dim2 \in Dims :
        LET bufs == [NoBufs EXCEPT !["A"] = Buf(PatOf(SizeofFloat, dim1 * dim2, 10))]
        IN  /\ arg' = [dim1 |-> dim1, dim2 |-> dim2, flag |-> 0, entry |-> hnd]
            /\ Commit(ssvd_setup([Machine EXCEPT !.bufs = bufs], dim1, dim2))
    /\ fn' = "ssvd" /\ pc' = "query"
    /\ UNCHANGED <<build, info, wkopt, calls, ndiv>>

\* sgesvd_ with lwork = -1: only wkopt and info are written
ssvd_query ==
    /\ fn = "ssvd" /\ pc = "query"
    /\ \E wk \in WorkSizes : wkopt' = wk
    /\ info' = 0
    /\ calls' = Append(calls, <<"sgesvd", -1, info'>>)
    /\ pc' = "allocwork"
    /\ UNCHANGED <<build, fn, arg, cbuf, hnd, heap, loc, ndiv, fault>>

\* a workspace sized from the matrix instead of from the query's answer
ssvd_allocwork_fixed ==
    /\ fn = "ssvd" /\ pc = "allocwork"
    /\ Commit(Malloc(Machine, "work", arg.dim1 * arg.dim2 * SizeofFloat, SizeofFloat))
    /\ pc' = "exec"
    /\ UNCHANGED <<build, fn, arg, info, wkopt, calls, ndiv>>

ssvd_allocwork ==
    /\ fn = "ssvd" /\ pc = "allocwork"
    /\ LET lwork == wkopt
       IN  Commit(Malloc(Machine, "work", lwork * SizeofFloat, SizeofFloat))
    /\ pc' = "exec"
    /\ UNCHANGED <<build, fn, arg, info, wkopt, calls, ndiv>>

\* sgesvd_("A", "A", ...): s gets MIN(m,n) values, u is ldu x m, vt is ldvt x n,
\* a is destroyed
ssvd_backend(m0, m, n, lwork, inf, sd) ==
    IF inf < 0 THEN BackendRead(BackendRead(m0, "a", m * n), "work", lwork)
    ELSE BackendWrite(BackendWrite(BackendWrite(BackendWrite(
            BackendRead(BackendRead(m0, "a", m * n), "work", lwork),
            "a", PatOf(SizeofFloat, m * n, 400 + 10 * sd)),
            "s", PatOf(SizeofFloat, MIN(m, n), 200 + 10 * sd)),
            "u", PatOf(SizeofFloat, m * m, 100 + 10 * sd)),
            "vt", PatOf(SizeofFloat, n * n, 300 + 10 * sd))

ssvd_exec ==
    /\ fn = "ssvd" /\ pc = "exec"
    /\ \E inf \in InfoVals, sd \in Seeds :
        /\ info' = inf
        /\ Commit(ssvd_backend(Machine, arg.dim1, arg.dim2, wkopt, inf, sd))
    /\ calls' = Append(calls, <<"sgesvd", wkopt, info'>>)
    /\ pc' = "final"
    /\ UNCHANGED <<build, fn, arg, wkopt, ndiv>>

\* the scratch buffers utility_ssvd frees before it returns
ssvd_frees == <<"a", "s", "u", "vt", "work">>

\* the failure path without the assignment of NULL
ssvd_failed_keep(m) == m
\* (*U) = (*S) = (*V) = NULL
ssvd_failed(m) == [m EXCEPT !.hnd = [U |-> NULL, S |-> NULL, V |-> NULL]]

\* the three allocations and the three output loops
ssvd_output(m, dim1, dim2) ==
    CopyOutH(CopyOutH(CopyOutH(
        MallocH(CallocH(MallocH(m,
            "U", dim1 * dim1 * SizeofFloat, SizeofFloat),
            "S", dim1 * dim2 * SizeofFloat, SizeofFloat),
            "V", dim2 * dim2 * SizeofFloat, SizeofFloat),
        "U", "u", ssvd_UPairs(dim1)),
        "S", "s", ssvd_SPairs(dim1, dim2)),
        "V", "vt", ssvd_VPairs(dim2))

ssvd_finish(m, dim1, dim2, inf) ==
    IF inf > 0 THEN ssvd_failed(FreeHandles(m))
    ELSE ssvd_output(FreeHandles(m), dim1, dim2)

ssvd_final ==
    /\ fn = "ssvd" /\ pc = "final"
    /\ Commit(FreeAll(ssvd_finish(Machine, arg.dim1, arg.dim2, info), ssvd_frees))
    /\ pc' = "ret"
    /\ UNCHANGED <<build, fn, arg, info, wkopt, calls, ndiv>>

----------------------------------------------------------------------------
(* The linear solvers: utility_sglslv, utility_cglslv (LU, with a pivot    *)
(* array) and utility_sslslv, utility_cslslv (Cholesky).  The four bodies  *)
(* differ in the element type and in IPIV only.                            *)

IsLU(f) == f \in {"sglslv", "cglslv"}
ElemSize(f) ==
    IF f \in {"cglslv", "cslslv", "ceig", "cinv"} THEN SizeofComplex
    ELSE IF f \in {"dpinv", "dinv"} THEN SizeofDouble
    ELSE SizeofFloat
\* the backend routine an entry point calls (the inverses: ?getrf, ?getri)
BackendRoutine(f) ==
    CASE f = "sglslv" -> "sgesv"  [] f = "cglslv" -> "cgesv"
      [] f = "sslslv" -> "sposv"  [] f = "cslslv" -> "cposv"
      [] f = "spinv" -> "sgesvd"  [] f = "dpinv" -> "dgesvd"
      [] f = "sinv" -> "sget"     [] f = "dinv" -> "dget"     [] f = "cinv" -> "cget"

\* a[j*dim+i] = A[i*dim+j]
lslv_aPairs(dim) ==
    {<<j * dim + i, i * dim + j>> : i \in 0..(dim - 1), j \in 0..(dim - 1)}
\* b[j*dim+i] = B[i*nCol+j]
lslv_bPairs(dim, nCol) ==
    {<<j * dim + i, i * nCol + j>> : i \in 0..(dim - 1), j \in 0..(nCol - 1)}
\* X[i*nCol+j] = b[j*dim+i]
lslv_XPairs(dim, nCol) ==
    {<<i * nCol + j, j * dim + i>> : i \in 0..(dim - 1), j \in 0..(nCol - 1)}
\* the same count with sizeof(float) for every element type
lslv_XZeroWords_float(f, dim, nCol) == dim * nCol * SizeofFloat
\* memset(X, 0, dim*nCol*sizeof(element))
lslv_XZeroWords(f, dim, nCol) == dim * nCol * ElemSize(f)
\* the scratch buffers a solver frees before it returns
lslv_frees(f) == IF IsLU(f) THEN <<"IPIV", "a", "b">> ELSE <<"a", "b">>

lslv_setup(m0, f, dim, nrhs) ==
    CopyIn(CopyIn(Malloc(Malloc(
        IF IsLU(f) THEN Malloc(m0, "IPIV", dim * SizeofInt, SizeofInt) ELSE m0,
        "a", dim * dim * ElemSize(f), ElemSize(f)),
        "b", dim * nrhs * ElemSize(f), ElemSize(f)),
        "a", "A", lslv_aPairs(dim)),
        "b", "B", lslv_bPairs(dim, nrhs))

lslv_alloc(f) ==
    /\ fn = "idle"
    /\ \E dim \in Dims, nCol \in Dims :
        LET sz == ElemSize(f)
            bufs == [NoBufs EXCEPT !["A"] = Buf(PatOf(sz, dim * dim, 10)),
                                   !["B"] = Buf(PatOf(sz, dim * nCol, 500)),
                                   !["X"] = Buf(PatOf(sz, dim * nCol, 900))]
        IN  /\ arg' = [dim1 |-> dim, dim2 |-> nCol, flag |-> 0, entry |-> bufs]
            /\ Commit(lslv_setup([Machine EXCEPT !.bufs = bufs], f, dim, nCol))
    /\ fn' = f /\ pc' = "exec"
    /\ UNCHANGED <<build, info, wkopt, calls, ndiv>>

\* ?gesv_ / ?posv_: a is replaced by its factors; on success b is replaced by
\* the solution, on info > 0 no solution is computed
lslv_backend(m0, f, dim, nrhs, inf, sd) ==
    LET rd == BackendRead(BackendRead(m0, "a", dim * dim), "b", dim * nrhs)
    IN  IF inf < 0 THEN rd
        ELSE LET fa == BackendWrite(rd, "a", PatOf(ElemSize(f), dim * dim, 400 + 10 * sd))
                 pv == IF IsLU(f) THEN BackendWrite(fa, "IPIV", PatOf(SizeofInt, dim, 0)) ELSE fa
             IN  IF inf # 0 THEN pv
                 ELSE BackendWrite(pv, "b", PatOf(ElemSize(f), dim * nrhs, 600 + 10 * sd))

lslv_exec(f) ==
    /\ fn = f /\ pc = "exec"
    /\ \E inf \in InfoVals, sd \in Seeds :
        /\ info' = inf
        /\ Commit(lslv_backend(Machine, f, arg.dim1, arg.dim2, inf, sd))
    /\ calls' = Append(calls, <<BackendRoutine(f), 0, info'>>)
    /\ pc' = "final"
    /\ UNCHANGED <<build, fn, arg, wkopt, ndiv>>

lslv_finish(m, f, dim, nCol, inf) ==
    IF inf > 0
    THEN MemsetC(m, "X", lslv_XZeroWords(f, dim, nCol), ElemSize(f))
    ELSE CopyOutC(m, "X", "b", lslv_XPairs(dim, nCol))

lslv_final(f) ==
    /\ fn = f /\ pc = "final"
    /\ Commit(FreeAll(lslv_finish(Machine, f, arg.dim1, arg.dim2, info), lslv_frees(f)))
    /\ pc' = "ret"
    /\ UNCHANGED <<build, fn, arg, info, wkopt, calls, ndiv>>


----------------------------------------------------------------------------
(* utility_sseig *)

EigVals == {1, 2}

\* ssyev_ returns the eigenvalues in ascending order
AscSeqs(n) ==
    {w \in [1..n -> EigVals] : \A i \in 1..n, j \in 1..n : i < j => w[i] <= w[j]}

\* a[i*dim+j] = A[j*dim+i]
eig_aPairs(dim) ==
    {<<i * dim + j, j * dim + i>> : i \in 0..(dim - 1), j \in 0..(dim - 1)}
\* V[i*dim+j] = a[(dim-j-1)*dim+i]  /  V[i*dim+j] = a[j*dim+i]
sseig_VPairs(dim, sortDecFLAG) ==
    IF sortDecFLAG # 0
    THEN {<<i * dim + j, (dim - j - 1) * dim + i>> : i \in 0..(dim - 1), j \in 0..(dim - 1)}
    ELSE {<<i * dim + j, j * dim + i>> : i \in 0..(dim - 1), j \in 0..(dim - 1)}
\* the diagonal filled in the backend's order whatever the flag
sseig_DPairs_asc(dim, sortDecFLAG) == {<<i * dim + i, i>> : i \in 0..(dim - 1)}
\* D[i*dim+i] = w[dim-i-1]  /  D[i*dim+i] = w[i]
sseig_DPairs(dim, sortDecFLAG) ==
    IF sortDecFLAG # 0
    THEN {<<i * dim + i, dim - i - 1>> : i \in 0..(dim - 1)}
    ELSE {<<i * dim + i, i>> : i \in 0..(dim - 1)}
\* memset(D, 0, dim*dim*sizeof(float)), memset(V, 0, dim*dim*sizeof(float))
sseig_ZeroWords(dim) == dim * dim * SizeofFloat
\* the scratch buffers utility_sseig frees before it returns
sseig_frees == <<"w", "a", "work">>

sseig_setup(m0, dim) ==
    CopyIn(Malloc(Malloc(m0,
        "w", dim * SizeofFloat, SizeofFloat),
        "a", dim * dim * SizeofFloat, SizeofFloat),
        "a", "A", eig_aPairs(dim))

sseig_alloc ==
    /\ fn = "idle"
    /\ \E dim \in Dims, sortDecFLAG \in {0, 1} :
        LET bufs == [NoBufs EXCEPT !["A"] = Buf(PatOf(SizeofFloat, dim * dim, 10)),
                                   !["V"] = Buf(PatOf(SizeofFloat, dim * dim, 900)),
                                   !["D"] = Buf(PatOf(SizeofFloat, dim * dim, 950))]
        IN  /\ arg' = [dim1 |-> dim, dim2 |-> dim, flag |-> sortDecFLAG, entry |-> bufs]
            /\ Commit(sseig_setup([Machine EXCEPT !.bufs = bufs], dim))
    /\ fn' = "sseig" /\ pc' = "query"
    /\ UNCHANGED <<build, info, wkopt, calls, ndiv>>

sseig_query ==
    /\ fn = "sseig" /\ pc = "query"
    /\ \E wk \in WorkSizes : wkopt' = wk
    /\ info' = 0
    /\ calls' = Append(calls, <<"ssyev", -1, info'>>)
    /\ pc' = "allocwork"
    /\ UNCHANGED <<build, fn, arg, cbuf, hnd, heap, loc, ndiv, fault>>

sseig_allocwork ==
    /\ fn = "sseig" /\ pc = "allocwork"
    /\ LET lwork == wkopt
       IN  Commit(Malloc(Machine, "work", lwork * SizeofFloat, SizeofFloat))
    /\ pc' = "exec"
    /\ UNCHANGED <<build, fn, arg, info, wkopt, calls, ndiv>>

\* ssyev_("Vectors", "Upper", ...): w gets the eigenvalues, a the eigenvectors
\* (eigenvector k in column k)
sseig_backend(m0, dim, lwork, inf, sd, ev) ==
    IF inf < 0 THEN BackendRead(BackendRead(m0, "a", dim * dim), "work", lwork)
    ELSE BackendWrite(BackendWrite(
            BackendRead(BackendRead(m0, "a", dim * dim), "work", lwork),
            "w", ev),
            "a", PatOf(SizeofFloat, dim * dim, 100 + 10 * sd))

sseig_exec ==
    /\ fn = "sseig" /\ pc = "exec"
    /\ \E inf \in InfoVals, sd \in Seeds, ev \in AscSeqs(arg.dim1) :
        /\ info' = inf
        /\ Commit(sseig_backend(Machine, arg.dim1, wkopt, inf, sd, ev))
    /\ calls' = Append(calls, <<"ssyev", wkopt, info'>>)
    /\ pc' = "final"
    /\ UNCHANGED <<build, fn, arg, wkopt, ndiv>>

sseig_finish(m, dim, sortDecFLAG, inf) ==
    IF inf > 0
    THEN MemsetC(MemsetC(m, "D", sseig_ZeroWords(dim), SizeofFloat),
                 "V", sseig_ZeroWords(dim), SizeofFloat)
    ELSE CopyOutC(CopyOutC(MemsetC(m, "D", sseig_ZeroWords(dim), SizeofFloat),
                 "V", "a", sseig_VPairs(dim, sortDecFLAG)),
                 "D", "w", sseig_DPairs(dim, sortDecFLAG))

sseig_final ==
    /\ fn = "sseig" /\ pc = "final"
    /\ Commit(FreeAll(sseig_finish(Machine, arg.dim1, arg.flag, info), sseig_frees))
    /\ pc' = "ret"
    /\ UNCHANGED <<build, fn, arg, info, wkopt, calls, ndiv>>

----------------------------------------------------------------------------
(* sortf and its comparators *)

SizeofSortFloat == 2

cmp_asc_float(a1, a2) ==
    IF a1.val < a2.val THEN -1 ELSE IF a1.val > a2.val THEN 1 ELSE 0

\* the descending comparator with its two tests the wrong way round
cmp_desc_float_swapped(a1, a2) ==
    IF a1.val < a2.val THEN -1 ELSE IF a1.val > a2.val THEN 1 ELSE 0

cmp_desc_float(a1, a2) ==
    IF a1.val > a2.val THEN -1 ELSE IF a1.val < a2.val THEN 1 ELSE 0

PermsOf(n) == {p \in [1..n -> 1..n] : \A i \in 1..n, j \in 1..n : p[i] = p[j] => i = j}

\* qsort(data, len, size, cmp): some rearrangement of data that is ordered by
\* cmp; the order of elements that compare equal is unspecified
qsort(data, descendFLAG) ==
    {[i \in 1..Len(data) |-> data[p[i]]] : p \in
        {q \in PermsOf(Len(data)) :
            \A i \in 1..Len(data), j \in 1..Len(data) :
                i < j => (IF descendFLAG # 0
                          THEN cmp_desc_float(data[q[i]], data[q[j]])
                          ELSE cmp_asc_float(data[q[i]], data[q[j]])) <= 0}}

\* the fill loop with the index counted from one
sortf_fill_onebased(in_vec, len) == [i \in 1..len |-> [val |-> in_vec[i], idx |-> i]]

\* data[i].val = in_vec[i]; data[i].idx = i
sortf_fill(in_vec, len) == [i \in 1..len |-> [val |-> in_vec[i], idx |-> i - 1]]

Ident(len) == {<<i, i>> : i \in 0..(len - 1)}

\* the output loop: out_vec[i] (or in_vec[i]) = data[i].val, new_idices[i] = data[i].idx
sortf_out(m, in, out, idx, len, sorted) ==
    LET vals == [i \in 1..len |-> sorted[i].val]
        idxs == [i \in 1..len |-> sorted[i].idx]
        m1 == StoreLoc(AccessL(m, "data", 0..(len - 1)),
                       IF out # "" THEN out ELSE in, vals, Ident(len))
    IN  IF idx # "" THEN StoreLoc(m1, idx, idxs, Ident(len)) ELSE m1

\* sortf on the local blocks in (in_vec), out (out_vec, "" for NULL) and
\* idx (new_idices, "" for NULL); sorted is what qsort left in data
sortf(m, in, out, idx, len, sorted) ==
    FreeAll(sortf_out(
        StoreLoc(AccessL(Malloc(m, "data", len * SizeofSortFloat, SizeofSortFloat),
                         in, 0..(len - 1)),
                 "data", sorted, Ident(len)),
        in, out, idx, len, sorted), <<"data">>)

----------------------------------------------------------------------------
(* utility_ceig *)

\* eigenvalues cgeev_ may return, as <<real, imaginary>>, in any order
CEigVals == {<<1, 0>>, <<1, 5>>, <<2, 7>>}

crealf(z) == z[1]
cmplxf(re, im) == <<re, im>>

\* VL[i*dim+j] = vl[sort_idx[j]*dim+i], VR[i*dim+j] = vr[sort_idx[j]*dim+i]
ceig_VPairs(dim, sort_idx) ==
    {<<i * dim + j, sort_idx[j + 1] * dim + i>> : i \in 0..(dim - 1), j \in 0..(dim - 1)}
\* D[i*dim+i] = cmplxf(wr[i], 0.0f)
ceig_DPairs(dim) == {<<i * dim + i, i>> : i \in 0..(dim - 1)}
\* the same count with sizeof(float)
ceig_ZeroWords_float(dim) == dim * dim * SizeofFloat
\* memset(D / VL / VR, 0, dim*dim*sizeof(float_complex))
ceig_ZeroWords(dim) == dim * dim * SizeofComplex
\* the scratch buffers utility_ceig frees before it returns
ceig_frees == <<"rwork", "work", "w", "vl", "vr", "a", "wr", "sort_idx">>

ceig_setup(m0, dim) ==
    CopyIn(Malloc(Malloc(Malloc(Malloc(Malloc(m0,
        "rwork", 2 * dim * SizeofFloat, SizeofFloat),
        "w", dim * SizeofComplex, SizeofComplex),
        "vl", dim * dim * SizeofComplex, SizeofComplex),
        "vr", dim * dim * SizeofComplex, SizeofComplex),
        "a", dim * dim * SizeofComplex, SizeofComplex),
        "a", "A", eig_aPairs(dim))

ceig_alloc ==
    /\ fn = "idle"
    /\ \E dim \in Dims, sortDecFLAG \in {0, 1},
          hasVL \in BOOLEAN, hasVR \in BOOLEAN, hasD \in BOOLEAN :
        LET bufs == [NoBufs EXCEPT
                        !["A"] = Buf(PatOf(SizeofComplex, dim * dim, 10)),
                        !["VL"] = IF hasVL THEN Buf(PatOf(SizeofComplex, dim * dim, 900))
                                   ELSE NullBuf,
                        !["VR"] = IF hasVR THEN Buf(PatOf(SizeofComplex, dim * dim, 920))
                                   ELSE NullBuf,
                        !["D"] = IF hasD THEN Buf(PatOf(SizeofComplex, dim * dim, 950))
                                  ELSE NullBuf]
        IN  /\ arg' = [dim1 |-> dim, dim2 |-> dim, flag |-> sortDecFLAG, entry |-> bufs]
            /\ Commit(ceig_setup([Machine EXCEPT !.bufs = bufs], dim))
    /\ fn' = "ceig" /\ pc' = "query"
    /\ UNCHANGED <<build, info, wkopt, calls, ndiv>>

\* cgeev_ with lwork = -1; lwork = (int)crealf(wkopt)
ceig_query ==
    /\ fn = "ceig" /\ pc = "query"
    /\ \E wk \in WorkSizes : wkopt' = crealf(cmplxf(wk, 0))
    /\ info' = 0
    /\ calls' = Append(calls, <<"cgeev", -1, info'>>)
    /\ pc' = "allocwork"
    /\ UNCHANGED <<build, fn, arg, cbuf, hnd, heap, loc, ndiv, fault>>

ceig_allocwork ==
    /\ fn = "ceig" /\ pc = "allocwork"
    /\ LET lwork == wkopt
       IN  Commit(Malloc(Machine, "work", lwork * SizeofComplex, SizeofComplex))
    /\ pc' = "exec"
    /\ UNCHANGED <<build, fn, arg, info, wkopt, calls, ndiv>>

\* cgeev_("Vectors", "Vectors", ...): w gets the eigenvalues, vl and vr the left
\* and right eigenvectors (eigenvector k in column k); a is overwritten
ceig_backend(m0, dim, lwork, inf, sd, ev) ==
    LET rd == BackendRead(BackendRead(BackendRead(m0, "a", dim * dim),
                                      "work", lwork), "rwork", 2 * dim)
    IN  IF inf < 0 THEN rd
        ELSE BackendWrite(BackendWrite(BackendWrite(BackendWrite(rd,
                "w", ev),
                "vl", PatOf(SizeofComplex, dim * dim, 100 + 10 * sd)),
                "vr", PatOf(SizeofComplex, dim * dim, 200 + 10 * sd)),
                "a", PatOf(SizeofComplex, dim * dim, 400 + 10 * sd))

ceig_exec ==
    /\ fn = "ceig" /\ pc = "exec"
    /\ \E inf \in InfoVals, sd \in Seeds, ev \in [1..arg.dim1 -> CEigVals] :
        /\ info' = inf
        /\ Commit(ceig_backend(Machine, arg.dim1, wkopt, inf, sd, ev))
    /\ calls' = Append(calls, <<"cgeev", wkopt, info'>>)
    /\ pc' = "sort"
    /\ UNCHANGED <<build, fn, arg, wkopt, ndiv>>

\* wr[i] = crealf(w[i])
ceig_wr(w, dim) == [i \in 1..dim |-> crealf(w[i])]

\* wr = malloc(..); sort_idx = malloc(..); for(i..) wr[i] = crealf(w[i]);
ceig_presort(m, dim) ==
    StoreLoc(AccessL(Malloc(Malloc(m,
        "wr", dim * SizeofFloat, SizeofFloat),
        "sort_idx", dim * SizeofInt, SizeofInt),
        "w", 0..(dim - 1)),
        "wr", ceig_wr(Data(m, "w"), dim), Ident(dim))

\* sortf(wr, NULL, sort_idx, dim, sortDecFLAG)
ceig_sort ==
    /\ fn = "ceig" /\ pc = "sort"
    /\ \E sorted \in qsort(sortf_fill(ceig_wr(Data(Machine, "w"), arg.dim1), arg.dim1),
                           arg.flag) :
          Commit(sortf(ceig_presort(Machine, arg.dim1), "wr", "", "sort_idx",
                       arg.dim1, sorted))
    /\ pc' = "final"
    /\ UNCHANGED <<build, fn, arg, info, wkopt, calls, ndiv>>

\* if(X != NULL) memset(X, 0, dim*dim*sizeof(float_complex))
ceig_zero(m, bname, dim) ==
    IF m.bufs[bname].null THEN m
    ELSE MemsetC(m, bname, ceig_ZeroWords(dim), SizeofComplex)

\* if(VL != NULL) for(j..) VL[i*dim+j] = vl[sort_idx[j]*dim+i]
ceig_outV(m, bname, sname, dim) ==
    IF m.bufs[bname].null THEN m
    ELSE CopyOutC(AccessL(m, "sort_idx", 0..(dim - 1)), bname, sname,
                  ceig_VPairs(dim, Data(m, "sort_idx")))

\* if(D != NULL) D[i*dim+i] = cmplxf(wr[i], 0.0f)
ceig_outD(m, dim) ==
    IF m.bufs["D"].null THEN m
    ELSE StoreC(AccessL(m, "wr", SrcIdx(ceig_DPairs(dim))),
                "D", [i \in 1..dim |-> cmplxf(Data(m, "wr")[i], 0)], ceig_DPairs(dim))

ceig_finish(m, dim, inf) ==
    IF inf > 0
    THEN ceig_zero(ceig_zero(ceig_zero(m, "D", dim), "VL", dim), "VR", dim)
    ELSE ceig_outD(ceig_outV(ceig_outV(ceig_zero(m, "D", dim),
                   "VL", "vl", dim), "VR", "vr", dim), dim)

ceig_final ==
    /\ fn = "ceig" /\ pc = "final"
    /\ Commit(FreeAll(ceig_finish(Machine, arg.dim1, info), ceig_frees))
    /\ pc' = "ret"
    /\ UNCHANGED <<build, fn, arg, info, wkopt, calls, ndiv>>

----------------------------------------------------------------------------
(* utility_spinv and utility_dpinv: the same body on floats and on        *)
(* doubles.  A double is the pair <<low word, high word>>; its magnitude   *)
(* is in the high word.                                                    *)

\* singular values the backend may return: spinv in units of 1e-12, dpinv
\* (high word) in units of 1e-18
SVals(f) ==
    IF f = "spinv" THEN {0, 9999999, 20000000}
    ELSE {<<0, 0>>, <<7, 999999972>>, <<7, 2000000000>>}
NumOf(f, x) == IF f = "spinv" THEN x ELSE x[2]

\* the literal s[i] is compared with: 1.0e-5f in spinv, 1.0e-9f in dpinv,
\* rounded down to the units of SVals
pinv_tol(f) == IF f = "spinv" THEN 9999999 ELSE 999999971

\* ?gesvd_ returns the singular values in non-increasing order
DescSeqs(f, n) ==
    {s \in [1..n -> SVals(f)] :
        \A i \in 1..n, j \in 1..n : i < j => NumOf(f, s[i]) >= NumOf(f, s[j])}

\* a[j*m+i] = inM[i*n+j]
pinv_aPairs(m, n) ==
    {<<j * m + i, i * n + j>> : i \in 0..(m - 1), j \in 0..(n - 1)}
\* outM[j*m+i] = inva[i*n+j]
pinv_outPairs(m, n) ==
    {<<j * m + i, i * n + j>> : i \in 0..(m - 1), j \in 0..(n - 1)}
\* memset(outM, 0, dim1*dim2*sizeof(float)), in utility_spinv and in utility_dpinv
pinv_ZeroWords(f, dim1, dim2) == dim1 * dim2 * SizeofFloat
\* the failure path without free(work)
pinv_frees_failed_short == <<"a", "s", "u", "vt">>
\* the scratch buffers freed on the failure path and on the normal path
pinv_frees_failed == <<"a", "s", "u", "vt", "work">>
pinv_frees == <<"a", "s", "u", "vt", "inva", "work">>

pinv_setup(m0, f, dim1, dim2) ==
    LET m == dim1  n == dim2  k == MIN(dim1, dim2)
        lda == dim1  ldu == dim1  ldvt == MIN(dim1, dim2)
        sz == ElemSize(f)
    IN  Malloc(Malloc(Malloc(CopyIn(Malloc(m0,
            "a", m * n * sz, sz),
            "a", "inM", pinv_aPairs(m, n)),
            "s", k * sz, sz),
            "u", ldu * k * sz, sz),
            "vt", ldvt * n * sz, sz)

pinv_alloc(f) ==
    /\ fn = "idle"
    /\ \E dim1 \in Dims, dim2 \in Dims :
        LET sz == ElemSize(f)
            bufs == [NoBufs EXCEPT !["inM"] = Buf(PatOf(sz, dim1 * dim2, 10)),
                                   !["outM"] = Buf(PatOf(sz, dim2 * dim1, 900))]
        IN  /\ arg' = [dim1 |-> dim1, dim2 |-> dim2, flag |-> 0, entry |-> bufs]
            /\ Commit(pinv_setup([Machine EXCEPT !.bufs = bufs], f, dim1, dim2))
    /\ fn' = f /\ pc' = "query"
    /\ UNCHANGED <<build, info, wkopt, calls, ndiv>>

\* ?gesvd_ with lwork = -1
pinv_query(f) ==
    /\ fn = f /\ pc = "query"
    /\ \E wk \in WorkSizes : wkopt' = wk
    /\ info' = 0
    /\ calls' = Append(calls, <<BackendRoutine(f), -1, info'>>)
    /\ pc' = "allocwork"
    /\ UNCHANGED <<build, fn, arg, cbuf, hnd, heap, loc, ndiv, fault>>

pinv_allocwork(f) ==
    /\ fn = f /\ pc = "allocwork"
    /\ LET lwork == wkopt
       IN  Commit(Malloc(Machine, "work", lwork * ElemSize(f), ElemSize(f)))
    /\ pc' = "exec"
    /\ UNCHANGED <<build, fn, arg, info, wkopt, calls, ndiv>>

\* ?gesvd_("S", "S", ...): s gets k values, u is ldu x k, vt is ldvt x n
pinv_backend(m0, f, m, n, k, lwork, inf, sd, sv) ==
    LET rd == BackendRead(BackendRead(m0, "a", m * n), "work", lwork)
    IN  IF inf < 0 THEN rd
        ELSE BackendWrite(BackendWrite(BackendWrite(BackendWrite(rd,
                "a", PatOf(ElemSize(f), m * n, 400 + 10 * sd)),
                "s", sv),
                "u", PatOf(ElemSize(f), m * k, 100 + 10 * sd)),
                "vt", PatOf(ElemSize(f), k * n, 300 + 10 * sd))

pinv_exec(f) ==
    /\ fn = f /\ pc = "exec"
    /\ \E inf \in InfoVals, sd \in Seeds,
          sv \in DescSeqs(f, MIN(arg.dim1, arg.dim2)) :
        /\ info' = inf
        /\ Commit(pinv_backend(Machine, f, arg.dim1, arg.dim2,
                               MIN(arg.dim1, arg.dim2), wkopt, inf, sd, sv))
    /\ calls' = Append(calls, <<BackendRoutine(f), wkopt, info'>>)
    /\ pc' = "final"
    /\ UNCHANGED <<build, fn, arg, wkopt, ndiv>>

\* if(s[i] > tol) ss = 1.0f/s[i]; else ss = s[i];
pinv_ss(f, si) ==
    IF si = UndefOf(ElemSize(f)) THEN <<"undef", si>>
    ELSE IF NumOf(f, si) > pinv_tol(f) THEN <<"recip", si>> ELSE <<"same", si>>

\* cblas_?scal(m, ss, &u[i*m], 1) for i < k: column i of u times ss
pinv_scaled(f, u, s, m, k) ==
    [x \in 1..Len(u) |->
        IF (x - 1) \div m < k /\ (x - 1) \div m < Len(s)
        THEN <<u[x], pinv_ss(f, s[((x - 1) \div m) + 1])>>
        ELSE u[x]]

pinv_scale(mc, f, m, k) ==
    LET acc == AccessL(AccessL(mc, "s", 0..(k - 1)), "u", 0..(k * m - 1))
    IN  IF mc.loc["u"] \in DOMAIN mc.heap
        THEN [acc EXCEPT !.heap[mc.loc["u"]].data =
                 pinv_scaled(f, @, Data(mc, "s"), m, k)]
        ELSE acc

\* cblas_?gemm(ColMajor, Trans, Trans, n, m, k, 1, vt, ldvt, u, ldu, 0, inva, n):
\* inva(r, c) = sum over l of vt(l, r) * u(c, l), kept as the list of its terms
pinv_product(vt, u, m, n, k) ==
    [x \in 1..(n * m) |->
        [l \in 1..k |-> << vt[(l - 1) + ((x - 1) % n) * k + 1],
                           u[((x - 1) \div n) + (l - 1) * m + 1] >>]]

pinv_gemm(mc, m, n, k) ==
    LET acc == AccessL(AccessL(AccessL(mc, "vt", 0..(k * n - 1)),
                       "u", 0..(m * k - 1)), "inva", 0..(n * m - 1))
    IN  IF acc.fault = {}
        THEN [acc EXCEPT !.heap[mc.loc["inva"]].data =
                 pinv_product(Data(mc, "vt"), Data(mc, "u"), m, n, k)]
        ELSE acc

pinv_finish(mc, f, dim1, dim2, inf) ==
    IF inf > 0
    THEN FreeAll(MemsetC(mc, "outM", pinv_ZeroWords(f, dim1, dim2), ElemSize(f)),
                 pinv_frees_failed)
    ELSE FreeAll(CopyOutC(pinv_gemm(Malloc(
                    pinv_scale(mc, f, dim1, MIN(dim1, dim2)),
                    "inva", dim2 * dim1 * ElemSize(f), ElemSize(f)),
                    dim1, dim2, MIN(dim1, dim2)),
                 "outM", "inva", pinv_outPairs(dim1, dim2)),
                 pinv_frees)

pinv_final(f) ==
    /\ fn = f /\ pc = "final"
    /\ Commit(pinv_finish(Machine, f, arg.dim1, arg.dim2, info))
    /\ pc' = "ret"
    /\ UNCHANGED <<build, fn, arg, info, wkopt, calls, ndiv>>


----------------------------------------------------------------------------
(* utility_sinv, utility_dinv, utility_cinv: in-place inversion of the     *)
(* caller's N x N matrix A                                                 *)

\* IPIV = malloc(N * sizeof(int)); utility_dinv allocates N+1
inv_IPIVLen(f, N) == IF f = "dinv" THEN N + 1 ELSE N
\* the scratch buffers an inverse frees before it returns
inv_frees == <<"IPIV", "WORK">>

inv_alloc(f) ==
    /\ fn = "idle"
    /\ \E N \in Dims :
        LET sz == ElemSize(f)
            LWORK == N * N
            bufs == [NoBufs EXCEPT !["A"] = Buf(PatOf(sz, N * N, 10))]
        IN  /\ arg' = [dim1 |-> N, dim2 |-> N, flag |-> 0, entry |-> bufs]
            /\ Commit(Malloc(Malloc([Machine EXCEPT !.bufs = bufs],
                    "IPIV", inv_IPIVLen(f, N) * SizeofInt, SizeofInt),
                    "WORK", LWORK * sz, sz))
    /\ fn' = f /\ pc' = "getrf"
    /\ UNCHANGED <<build, info, wkopt, calls, ndiv>>

\* ?getrf_(&N, &N, A, &N, IPIV, &INFO): A becomes its LU factors
inv_getrf(f) ==
    /\ fn = f /\ pc = "getrf"
    /\ \E inf \in InfoVals, sd \in Seeds :
        /\ info' = inf
        /\ Commit(IF inf < 0 THEN Machine
                  ELSE BackendWrite(
                         BackendWriteC(Machine, "A",
                             PatOf(ElemSize(f), arg.dim1 * arg.dim1, 400 + 10 * sd)),
                         "IPIV", PatOf(SizeofInt, arg.dim1, 0)))
    /\ calls' = Append(calls, <<BackendRoutine(f) \o "rf", 0, info'>>)
    /\ pc' = "getri"
    /\ UNCHANGED <<build, fn, arg, wkopt, ndiv>>

\* ?getri_(&N, A, &N, IPIV, WORK, &LWORK, &INFO), whatever getrf reported:
\* A becomes the inverse if the factor is not singular
inv_getri(f) ==
    /\ fn = f /\ pc = "getri"
    /\ \E inf \in InfoVals, sd \in Seeds :
        /\ info' = inf
        /\ LET LWORK == arg.dim1 * arg.dim1
               rd == BackendRead(BackendRead(Machine, "IPIV", arg.dim1), "WORK", LWORK)
           IN  Commit(IF inf # 0 THEN rd
                      ELSE BackendWriteC(rd, "A",
                               PatOf(ElemSize(f), arg.dim1 * arg.dim1, 600 + 10 * sd)))
    /\ calls' = Append(calls, <<BackendRoutine(f) \o "ri", arg.dim1 * arg.dim1, info'>>)
    /\ pc' = "final"
    /\ UNCHANGED <<build, fn, arg, wkopt, ndiv>>

inv_final(f) ==
    /\ fn = f /\ pc = "final"
    /\ Commit(FreeAll(Machine, inv_frees))
    /\ pc' = "ret"
    /\ UNCHANGED <<build, fn, arg, info, wkopt, calls, ndiv>>


----------------------------------------------------------------------------
(* The vector primitives.  Each runs to completion in one step.  The       *)
(* element values are small integers chosen so that every product, sum     *)
(* and quotient is exact.                                                  *)

VecBuilds == {"ACCELERATE", "MKL", "NONE"}

FVals == {0, 2, 4}
SclVals == {0, 1, 2}
CVals == {<<0, 0>>, <<1, 2>>}
CSclVals == {<<0, 1>>, <<2, 3>>}

ccmulf(x, y) == <<x[1] * y[1] - x[2] * y[2], x[1] * y[2] + x[2] * y[1]>>

\* the caller's buffers of a vector-scalar call
vs_bufs(a, s, hasC, sz) ==
    [NoBufs EXCEPT !["a"] = Buf(a), !["s"] = Buf(<<s>>),
                   !["c"] = IF hasC THEN Buf(PatOf(sz, Len(a), 900)) ELSE NullBuf]

\* one call of a primitive: from idle to its return
vec_call(f, bufs, len, m, nd) ==
    /\ fn = "idle"
    /\ fn' = f /\ pc' = "ret"
    /\ arg' = [dim1 |-> len, dim2 |-> 0, flag |-> 0, entry |-> bufs]
    /\ Commit(m)
    /\ ndiv' = nd
    /\ UNCHANGED <<build, info, wkopt, calls>>

\* utility_svvcopy(tmp, len, a): a[i] = tmp[i]
utility_svvcopy(m, sname, len, bname) == CopyOutC(m, bname, sname, Ident(len))

\* c[i] = a[i] * b[i]
svvmul_vals(a, b, len) == [i \in 1..len |-> a[i] * b[i]]

utility_svvmul(m, bld, len) ==
    LET rd == AccessC(AccessC(m, "a", 0..(len - 1)), "b", 0..(len - 1))
        vals == svvmul_vals(m.bufs["a"].data, m.bufs["b"].data, len)
    IN  IF bld = "ACCELERATE" /\ m.bufs["c"].null
        THEN FreeAll(utility_svvcopy(
                StoreLoc(Malloc(rd, "tmp", len * SizeofFloat, SizeofFloat),
                         "tmp", vals, Ident(len)),
                "tmp", len, "a"), <<"tmp">>)
        ELSE StoreC(rd, "c", vals, Ident(len))

svvmul ==
    \E len \in Lens : \E a \in [1..len -> FVals], b \in [1..len -> FVals], hasC \in BOOLEAN :
        LET bufs == [NoBufs EXCEPT !["a"] = Buf(a), !["b"] = Buf(b),
                        !["c"] = IF hasC THEN Buf(PatOf(SizeofFloat, len, 900)) ELSE NullBuf]
        IN  vec_call("svvmul", bufs, len,
                     utility_svvmul([Machine EXCEPT !.bufs = bufs], build, len), 0)

\* c[i] = a[i] * s[0]
svsmul_vals(a, s, len) == [i \in 1..len |-> a[i] * s[1]]

utility_svsmul(m, bld, len) ==
    LET vals == svsmul_vals(m.bufs["a"].data, m.bufs["s"].data, len)
    IN  IF bld \in {"ACCELERATE", "MKL"} /\ m.bufs["c"].null
        THEN StoreC(AccessC(m, "s", {0}), "a", vals, Ident(len))
        ELSE StoreC(AccessC(AccessC(m, "s", {0}), "a", 0..(len - 1)),
                    "c", vals, Ident(len))

svsmul ==
    \E len \in Lens : \E a \in [1..len -> FVals], s \in SclVals, hasC \in BOOLEAN :
        LET bufs == vs_bufs(a, s, hasC, SizeofFloat)
        IN  vec_call("svsmul", bufs, len,
                     utility_svsmul([Machine EXCEPT !.bufs = bufs], build, len), 0)

\* c[i] = ccmulf(a[i], s[0])
cvsmul_vals(a, s, len) == [i \in 1..len |-> ccmulf(a[i], s[1])]

utility_cvsmul(m, bld, len) ==
    LET vals == cvsmul_vals(m.bufs["a"].data, m.bufs["s"].data, len)
    IN  IF bld \in {"ACCELERATE", "MKL"} /\ m.bufs["c"].null
        THEN StoreC(AccessC(m, "s", {0}), "a", vals, Ident(len))
        ELSE StoreC(AccessC(AccessC(m, "s", {0}), "a", 0..(len - 1)),
                    "c", vals, Ident(len))

cvsmul ==
    \E len \in Lens : \E a \in [1..len -> CVals], s \in CSclVals, hasC \in BOOLEAN :
        LET bufs == vs_bufs(a, s, hasC, SizeofComplex)
        IN  vec_call("cvsmul", bufs, len,
                     utility_cvsmul([Machine EXCEPT !.bufs = bufs], build, len), 0)

\* c[i] = a[i] / s[0]
svsdiv_vals(a, s, len) == [i \in 1..len |-> a[i] \div s[1]]
\* memset(c, 0, len*sizeof(float))
svsdiv_ZeroWords(len) == len * SizeofFloat

utility_svsdiv(m, len) ==
    IF m.bufs["s"].data[1] = 0
    THEN MemsetC(AccessC(m, "s", {0}), "c", svsdiv_ZeroWords(len), SizeofFloat)
    ELSE StoreC(AccessC(AccessC(m, "s", {0}), "a", 0..(len - 1)),
                "c", svsdiv_vals(m.bufs["a"].data, m.bufs["s"].data, len), Ident(len))

svsdiv ==
    \E len \in Lens : \E a \in [1..len -> FVals], s \in SclVals, hasC \in BOOLEAN :
        LET bufs == vs_bufs(a, s, hasC, SizeofFloat)
        IN  vec_call("svsdiv", bufs, len,
                     utility_svsdiv([Machine EXCEPT !.bufs = bufs], len),
                     IF s = 0 THEN 0 ELSE len)

\* c[i] = a[i] + s[0]
svsadd_vals(a, s, len) == [i \in 1..len |-> a[i] + s[1]]

utility_svsadd(m, len) ==
    StoreC(AccessC(AccessC(m, "s", {0}), "a", 0..(len - 1)),
           "c", svsadd_vals(m.bufs["a"].data, m.bufs["s"].data, len), Ident(len))

svsadd ==
    \E len \in Lens : \E a \in [1..len -> FVals], s \in SclVals, hasC \in BOOLEAN :
        LET bufs == vs_bufs(a, s, hasC, SizeofFloat)
        IN  vec_call("svsadd", bufs, len,
                     utility_svsadd([Machine EXCEPT !.bufs = bufs], len), 0)

\* c[i] = a[i] - s[0]
svssub_vals(a, s, len) == [i \in 1..len |-> a[i] - s[1]]

utility_svssub(m, len) ==
    StoreC(AccessC(AccessC(m, "s", {0}), "a", 0..(len - 1)),
           "c", svssub_vals(m.bufs["a"].data, m.bufs["s"].data, len), Ident(len))

svssub ==
    \E len \in Lens : \E a \in [1..len -> FVals], s \in SclVals, hasC \in BOOLEAN :
        LET bufs == vs_bufs(a, s, hasC, SizeofFloat)
        IN  vec_call("svssub", bufs, len,
                     utility_svssub([Machine EXCEPT !.bufs = bufs], len), 0)

----------------------------------------------------------------------------
(* Between calls *)

NoHandles == [U |-> NULL, S |-> NULL, V |-> NULL]
LiveIds(h) == {i \in DOMAIN h : h[i].st = "live"}
HandleIds(hd) == {hd.U, hd.S, hd.V} \ {NULL}

\* the call returns: its locals go out of scope; freed blocks are forgotten
Leave ==
    /\ pc = "ret"
    /\ fn' = "idle" /\ pc' = "idle"
    /\ arg' = NoArg /\ cbuf' = NoBufs /\ loc' = NoLocs
    /\ info' = 0 /\ wkopt' = 0 /\ calls' = <<>> /\ ndiv' = 0 /\ fault' = {}
    /\ UNCHANGED build

Return ==
    /\ fn \notin {"idle", "ssvd", "sortf"}
    /\ Leave
    /\ heap' = [id \in LiveIds(heap) |-> heap[id]]
    /\ UNCHANGED hnd

\* utility_ssvd returns and the caller passes the same handles to its next call
ssvd_return ==
    /\ fn = "ssvd"
    /\ Leave
    /\ heap' = [id \in LiveIds(heap) |-> heap[id]]
    /\ UNCHANGED hnd

\* utility_ssvd returns and the caller takes the result buffers over: its next
\* call passes null handles
ssvd_return_take ==
    /\ fn = "ssvd"
    /\ Leave
    /\ heap' = [id \in LiveIds(heap) \ HandleIds(hnd) |-> heap[id]]
    /\ hnd' = NoHandles

DriverBuilds == {"ACCELERATE", "MKL"}

\* the caller's handles start null or owning a buffer of its own
InitHandles ==
    {h \in [{"U", "S", "V"} -> 0..3] :
        /\ h.U \in {NULL, 1}
        /\ h.S \in {NULL, IF h.U = NULL THEN 1 ELSE 2}
        /\ h.V \in {NULL, Cardinality({x \in {h.U, h.S} : x # NULL}) + 1}}

InitCall ==
    /\ fn = "idle" /\ pc = "idle"
    /\ arg = NoArg /\ cbuf = NoBufs /\ loc = NoLocs
    /\ info = 0 /\ wkopt = 0 /\ calls = <<>> /\ ndiv = 0 /\ fault = {}

(* every driver, each call on buffers of its own *)
Init ==
    /\ build \in DriverBuilds
    /\ InitCall
    /\ hnd = NoHandles
    /\ heap = <<>>

Solvers == {"sglslv", "cglslv", "sslslv", "cslslv"}
Pinvs == {"spinv", "dpinv"}
Invs == {"sinv", "dinv", "cinv"}

Next ==
    \/ ssvd_alloc \/ ssvd_query \/ ssvd_allocwork \/ ssvd_exec \/ ssvd_final
    \/ ssvd_return_take
    \/ sseig_alloc \/ sseig_query \/ sseig_allocwork \/ sseig_exec \/ sseig_final
    \/ ceig_alloc \/ ceig_query \/ ceig_allocwork \/ ceig_exec \/ ceig_sort \/ ceig_final
    \/ \E f \in Solvers : lslv_alloc(f) \/ lslv_exec(f) \/ lslv_final(f)
    \/ \E f \in Pinvs :
          pinv_alloc(f) \/ pinv_query(f) \/ pinv_allocwork(f) \/ pinv_exec(f) \/ pinv_final(f)
    \/ \E f \in Invs : inv_alloc(f) \/ inv_getrf(f) \/ inv_getri(f) \/ inv_final(f)
    \/ Return

Spec == Init /\ [][Next]_vars

(* utility_ssvd called again and again with the same three handles *)
SvdInit ==
    /\ build \in DriverBuilds
    /\ InitCall
    /\ hnd \in InitHandles
    /\ heap = [id \in HandleIds(hnd) |-> NewBlock(1, SizeofFloat)]

SvdNext ==
    \/ ssvd_alloc \/ ssvd_query \/ ssvd_allocwork \/ ssvd_exec \/ ssvd_final
    \/ ssvd_return

SpecSvd == SvdInit /\ [][SvdNext]_vars

(* the vector primitives, in each of the three builds *)
VecInit ==
    /\ build \in VecBuilds
    /\ InitCall
    /\ hnd = NoHandles
    /\ heap = <<>>

VecNext ==
    \/ svvmul \/ svsmul \/ cvsmul \/ svsdiv \/ svsadd \/ svssub
    \/ Return

SpecVec == VecInit /\ [][VecNext]_vars


(* sortf on its own: every input vector, with and without out_vec and      *)
(* new_idices.  The caller's vectors are blocks of the caller: in_vec is   *)
(* held in wr and new_idices in sort_idx, as at the call in utility_ceig.  *)

SortVals == {1, 2, 3}

\* the caller's vectors: in_vec, and out_vec and new_idices unless NULL
sortf_args(m, in_vec, hasOut, hasIdx) ==
    LET len == Len(in_vec)
        m1 == StoreLoc(Malloc(m, "wr", len * SizeofFloat, SizeofFloat),
                       "wr", in_vec, Ident(len))
        m2 == IF hasOut THEN Malloc(m1, "out_vec", len * SizeofFloat, SizeofFloat) ELSE m1
    IN  IF hasIdx THEN Malloc(m2, "sort_idx", len * SizeofInt, SizeofInt) ELSE m2

sortf_call ==
    /\ fn = "idle"
    /\ \E len \in 0..MaxSortLen, descendFLAG \in {0, 1, 2},
          hasOut \in BOOLEAN, hasIdx \in BOOLEAN :
        \E in_vec \in [1..len -> SortVals] :
          \E sorted \in qsort(sortf_fill(in_vec, len), descendFLAG) :
            /\ arg' = [dim1 |-> len, dim2 |-> 0, flag |-> descendFLAG, entry |-> in_vec]
            /\ Commit(sortf(sortf_args(Machine, in_vec, hasOut, hasIdx), "wr",
                            IF hasOut THEN "out_vec" ELSE "",
                            IF hasIdx THEN "sort_idx" ELSE "", len, sorted))
    /\ fn' = "sortf" /\ pc' = "ret"
    /\ UNCHANGED <<build, info, wkopt, calls, ndiv>>

\* sortf has returned and the caller is done with its vectors
sortf_return ==
    /\ fn = "sortf"
    /\ Leave
    /\ heap' = <<>>
    /\ UNCHANGED hnd

SortInit ==
    /\ build \in VecBuilds
    /\ InitCall
    /\ hnd = NoHandles
    /\ heap = <<>>

SortNext == sortf_call \/ sortf_return

SpecSort == SortInit /\ [][SortNext]_vars

----------------------------------------------------------------------------
(* Properties *)

VecOps == {"svvmul", "svsmul", "cvsmul", "svsdiv", "svsadd", "svssub"}

\* a returned call of entry point f
Returned(f) == fn = f /\ pc = "ret"

\* C1: when the backend SVD reports info > 0, utility_spinv and utility_dpinv
\* return with every one of the dim2 x dim1 elements of outM equal to zero
C1_PinvFailureZero ==
    (fn \in Pinvs /\ pc = "ret" /\ info > 0) =>
        /\ Len(cbuf["outM"].data) = arg.dim2 * arg.dim1
        /\ \A k \in 1..(arg.dim2 * arg.dim1) :
              cbuf["outM"].data[k] = ZeroOf(ElemSize(fn))

\* C2: a returned solver leaves X all zero if info > 0 and otherwise
\* X[i][k] = element (i,k) of the backend's column-major b; A and B hold what
\* they held on entry
C2_SolverResult ==
    (fn \in Solvers /\ pc = "ret") =>
        LET dim == arg.dim1
            nCol == arg.dim2
            X == cbuf["X"].data
            b == Data(Machine, "b")
        IN  /\ Len(X) = dim * nCol
            /\ info > 0 => \A k \in 1..(dim * nCol) : X[k] = ZeroOf(ElemSize(fn))
            /\ info <= 0 => \A i \in 0..(dim - 1), k \in 0..(nCol - 1) :
                               X[i * nCol + k + 1] = b[k * dim + i + 1]
            /\ cbuf["A"] = arg.entry["A"]
            /\ cbuf["B"] = arg.entry["B"]

C2_Witness ==
    /\ Returned("cglslv") /\ info > 0
    /\ arg.dim1 = 2 /\ arg.dim2 = 2
    /\ arg.entry["X"].data[4] # <<0, 0>>
    /\ cbuf["X"].data[4] = <<0, 0>>

\* C3: over repeated utility_ssvd calls on the same handles: the buffers the
\* handles held on entry are freed exactly once; after info > 0 the three
\* handles are null; after success they own three fresh live buffers; no block
\* is leaked, freed twice, or reachable through a handle after being freed
C3_SvdHandles ==
    /\ fault = {}
    /\ \A id \in DOMAIN heap : heap[id].nfree <= 1
    /\ HandleIds(hnd) \subseteq LiveIds(heap)
    /\ pc \in {"idle", "ret"} => LiveIds(heap) = HandleIds(hnd)
    /\ Returned("ssvd") =>
        /\ \A h \in {"U", "S", "V"} :
              arg.entry[h] # NULL =>
                  /\ heap[arg.entry[h]].st = "freed"
                  /\ heap[arg.entry[h]].nfree = 1
        /\ info > 0 => hnd = NoHandles
        /\ info = 0 =>
              /\ NULL \notin {hnd.U, hnd.S, hnd.V}
              /\ Cardinality(HandleIds(hnd)) = 3
              /\ HandleIds(hnd) \cap HandleIds(arg.entry) = {}

\* a failing call that entered with the buffers an earlier successful call left
C3_Witness ==
    /\ Returned("ssvd") /\ info > 0
    /\ NULL \notin {arg.entry.U, arg.entry.S, arg.entry.V}
    /\ heap[arg.entry.U].data[1] # Undef
    /\ heap[arg.entry.U].st = "freed"
    /\ hnd = NoHandles

\* what utility_ceig leaves in a supplied output, from the backend's results alone
C4_CeigOutput(b) ==
    LET dim == arg.dim1
        wr == Data(Machine, "wr")
        sort_idx == Data(Machine, "sort_idx")
        v == IF b = "VL" THEN Data(Machine, "vl") ELSE Data(Machine, "vr")
    IN  [x \in 1..(dim * dim) |->
            LET i == (x - 1) \div dim
                j == (x - 1) % dim
            IN  IF info > 0 THEN <<0, 0>>
                ELSE IF b = "D" THEN (IF i = j THEN <<wr[i + 1], 0>> ELSE <<0, 0>>)
                ELSE v[sort_idx[j + 1] * dim + i + 1]]

\* C4: with info > 0, utility_sseig returns V and D all zero and utility_ceig
\* returns every non-null output all zero; a null output of utility_ceig is
\* never accessed, and the other outputs are what they are when it is supplied
C4_EigFailure ==
    /\ (Returned("sseig") /\ info > 0) =>
          \A b \in {"V", "D"} :
              /\ Len(cbuf[b].data) = arg.dim1 * arg.dim1
              /\ \A k \in 1..(arg.dim1 * arg.dim1) : cbuf[b].data[k] = 0
    /\ Returned("ceig") =>
          /\ "null_deref" \notin fault
          /\ \A b \in {"VL", "VR", "D"} :
                IF arg.entry[b].null THEN cbuf[b] = NullBuf
                ELSE cbuf[b].data = C4_CeigOutput(b)

C4_Witness ==
    /\ Returned("ceig") /\ info > 0 /\ arg.dim1 = 2
    /\ arg.entry["VL"].null /\ ~arg.entry["VR"].null /\ ~arg.entry["D"].null
    /\ arg.entry["VR"].data[4] # <<0, 0>>
    /\ \A k \in 1..4 : cbuf["VR"].data[k] = <<0, 0>> /\ cbuf["D"].data[k] = <<0, 0>>

\* C5: after a successful utility_ceig there is one permutation p that sorts
\* the backend eigenvalues by real part in the requested direction such that
\* D[j][j] is the backend's complex eigenvalue w[p(j)], D is zero off the
\* diagonal, and column j of VL / VR is the backend's eigenvector p(j)
C5_CeigSorted ==
    (Returned("ceig") /\ info = 0) =>
        LET dim == arg.dim1
            w == Data(Machine, "w")
            vl == Data(Machine, "vl")
            vr == Data(Machine, "vr")
        IN  \E p \in PermsOf(dim) :
              /\ \A j \in 1..(dim - 1) :
                    IF arg.flag # 0
                    THEN crealf(w[p[j]]) >= crealf(w[p[j + 1]])
                    ELSE crealf(w[p[j]]) <= crealf(w[p[j + 1]])
              /\ ~cbuf["D"].null =>
                    \A i \in 0..(dim - 1), j \in 0..(dim - 1) :
                        cbuf["D"].data[i * dim + j + 1] =
                            IF i = j THEN w[p[j + 1]] ELSE <<0, 0>>
              /\ ~cbuf["VL"].null =>
                    \A i \in 0..(dim - 1), j \in 0..(dim - 1) :
                        cbuf["VL"].data[i * dim + j + 1] = vl[(p[j + 1] - 1) * dim + i + 1]
              /\ ~cbuf["VR"].null =>
                    \A i \in 0..(dim - 1), j \in 0..(dim - 1) :
                        cbuf["VR"].data[i * dim + j + 1] = vr[(p[j + 1] - 1) * dim + i + 1]

\* C6: after a successful utility_sseig D is zero off the diagonal, its
\* diagonal is non-decreasing for sortDecFLAG = 0 and non-increasing otherwise,
\* and column j of V is the backend eigenvector of the eigenvalue at D[j][j]
\* (eigenpair j ascending, eigenpair dim-1-j descending)
C6_SseigOrder ==
    (Returned("sseig") /\ info = 0) =>
        LET dim == arg.dim1
            w == Data(Machine, "w")
            a == Data(Machine, "a")
            D == cbuf["D"].data
            V == cbuf["V"].data
        IN  /\ \A i \in 0..(dim - 1), j \in 0..(dim - 1) :
                  i # j => D[i * dim + j + 1] = 0
            /\ \A j \in 0..(dim - 2) :
                  IF arg.flag = 0
                  THEN D[j * dim + j + 1] <= D[(j + 1) * dim + j + 2]
                  ELSE D[j * dim + j + 1] >= D[(j + 1) * dim + j + 2]
            /\ \A j \in 0..(dim - 1) :
                  LET k == IF arg.flag # 0 THEN dim - 1 - j ELSE j
                  IN  /\ D[j * dim + j + 1] = w[k + 1]
                      /\ \A i \in 0..(dim - 1) : V[i * dim + j + 1] = a[k * dim + i + 1]

C6_Witness ==
    /\ Returned("sseig") /\ info = 0 /\ arg.flag = 1 /\ arg.dim1 = 2
    /\ cbuf["D"].data = <<2, 0, 0, 1>>
    /\ cbuf["V"].data[1] = Data(Machine, "a")[3]

\* the result of a vector primitive on the buffers it was called with
C7_Result ==
    LET a == arg.entry["a"].data
        s == arg.entry["s"].data
        len == arg.dim1
    IN  CASE fn = "svvmul" -> svvmul_vals(a, arg.entry["b"].data, len)
          [] fn = "svsmul" -> svsmul_vals(a, s, len)
          [] fn = "cvsmul" -> cvsmul_vals(a, s, len)
          [] fn = "svsdiv" -> IF s[1] = 0 THEN [i \in 1..len |-> 0]
                              ELSE svsdiv_vals(a, s, len)
          [] fn = "svsadd" -> svsadd_vals(a, s, len)
          [] fn = "svssub" -> svssub_vals(a, s, len)

\* C7: a vector primitive called with c null returns with the result in a
\* and has made no access through the null pointer
C7_NullOutputInPlace ==
    (fn \in VecOps /\ pc = "ret" /\ arg.entry["c"].null) =>
        /\ "null_deref" \notin fault
        /\ cbuf["a"].data = C7_Result

\* C8: utility_svsdiv with s[0] = 0 returns an output of len zeros (in c, or
\* in a when c is null), has divided nothing, and leaves a as it was when c is
\* given
C8_ZeroDivisor ==
    (Returned("svsdiv") /\ arg.entry["s"].data[1] = 0) =>
        LET out == IF arg.entry["c"].null THEN cbuf["a"] ELSE cbuf["c"]
        IN  /\ fault = {}
            /\ ndiv = 0
            /\ Len(out.data) = arg.dim1
            /\ \A k \in 1..arg.dim1 : out.data[k] = 0
            /\ ~arg.entry["c"].null => cbuf["a"] = arg.entry["a"]

\* C9: after a successful utility_ssvd, U is dim1 x dim1 with U[i][j] = u(i,j),
\* S is dim1 x dim2 with the singular values on its diagonal and zero
\* elsewhere, V is dim2 x dim2 with V[i][j] = VT(j,i), and no index left its
\* buffer
C9_SvdOutput ==
    (Returned("ssvd") /\ info = 0) =>
        /\ fault = {}
        /\ HandleIds(hnd) \subseteq DOMAIN heap /\ NULL \notin {hnd.U, hnd.S, hnd.V}
        /\ LET dim1 == arg.dim1
               dim2 == arg.dim2
               u == Data(Machine, "u")
               s == Data(Machine, "s")
               vt == Data(Machine, "vt")
               U == heap[hnd.U].data
               S == heap[hnd.S].data
               V == heap[hnd.V].data
           IN  /\ Len(U) = dim1 * dim1 /\ Len(S) = dim1 * dim2 /\ Len(V) = dim2 * dim2
               /\ Len(s) = MIN(dim1, dim2)
               /\ \A i \in 0..(dim1 - 1), j \in 0..(dim1 - 1) :
                     U[i * dim1 + j + 1] = u[i + j * dim1 + 1]
               /\ \A i \in 0..(dim1 - 1), j \in 0..(dim2 - 1) :
                     S[i * dim2 + j + 1] = IF i = j THEN s[i + 1] ELSE 0
               /\ \A i \in 0..(dim2 - 1), j \in 0..(dim2 - 1) :
                     V[i * dim2 + j + 1] = vt[j + i * dim2 + 1]

C9_Witness ==
    /\ Returned("ssvd") /\ info = 0 /\ arg.dim1 = 2 /\ arg.dim2 = 1
    /\ heap[hnd.U].data[2] = Data(Machine, "u")[3]
    /\ heap[hnd.U].data[2] # heap[hnd.U].data[3]
    /\ heap[hnd.S].data = <<Data(Machine, "s")[1], 0>>

\* C10: in every driver, on every exit path, each scratch buffer allocated
\* during the call has been freed exactly once when the call returns, and no
\* block is freed twice, freed without having been allocated, or used after
\* being freed
C10_ScratchFreedOnce ==
    /\ fault \cap {"double_free", "bad_free", "use_after_free"} = {}
    /\ \A id \in DOMAIN heap : heap[id].nfree <= 1
    /\ pc = "ret" =>
          /\ \A id \in DOMAIN heap \ HandleIds(hnd) :
                heap[id].st = "freed" /\ heap[id].nfree = 1
          /\ \A n \in LocNames : loc[n] # NULL => loc[n] \in DOMAIN heap

\* the early return of utility_spinv
C10_Witness ==
    /\ Returned("spinv") /\ info > 0
    /\ Cardinality(DOMAIN heap) = 5
    /\ \A n \in {"a", "s", "u", "vt", "work"} :
          loc[n] \in DOMAIN heap /\ heap[loc[n]].nfree = 1

\* the drivers whose backend routine takes a workspace of a size it can be asked for
QueryDrivers == {"ssvd", "sseig", "ceig"} \cup Pinvs

C11_Routine(f) ==
    CASE f = "ssvd" -> "sgesvd" [] f = "sseig" -> "ssyev" [] f = "ceig" -> "cgeev"
      [] OTHER -> BackendRoutine(f)

\* the number of elements of the block a local pointer names (-1: none)
C11_BlockLen(name) ==
    IF loc[name] \in DOMAIN heap THEN Len(heap[loc[name]].data) ELSE -1

\* the query (lwork = -1) has been made and nothing else: no scratch block
\* other than the column-major copy has been written, no caller buffer changed
C11_OnlyQueried(f) ==
    /\ Len(calls) = 1
    /\ calls[1] = <<C11_Routine(f), -1, info>>
    /\ \A n \in LocNames \ {"a"} :
          loc[n] \in DOMAIN heap =>
              \A k \in 1..Len(heap[loc[n]].data) :
                  heap[loc[n]].data[k] = UndefOf(heap[loc[n]].sz)
    /\ LET in == IF f \in Pinvs THEN "inM" ELSE "A"
       IN  \A k \in 1..Len(Data(Machine, "a")) :
               \E x \in 1..Len(cbuf[in].data) : Data(Machine, "a")[k] = cbuf[in].data[x]
    /\ IF f = "ssvd" THEN hnd = arg.entry ELSE cbuf = arg.entry

\* the execute call has followed the query, with the workspace the query asked for
C11_QueriedThenExecuted(f) ==
    /\ Len(calls) = 2
    /\ calls[1][1] = C11_Routine(f) /\ calls[1][2] = -1
    /\ calls[2] = <<C11_Routine(f), wkopt, info>>
    /\ C11_BlockLen("work") = wkopt

\* C11 as stated: every driver, the solvers and the inverses included, returns
\* having called the backend exactly twice, a query with lwork = -1 and then
\* one execute call with a workspace of the size the query returned, whose
\* status is the one the driver acts on
C11_EveryDriverQueries ==
    (fn \in QueryDrivers \cup Solvers \cup Invs /\ pc = "ret") =>
        /\ Len(calls) = 2
        /\ calls[1][2] = -1
        /\ calls[2][2] = wkopt
        /\ calls[2][3] = info
        /\ C11_BlockLen(IF fn \in Invs THEN "WORK" ELSE "work") = wkopt

\* C11 as amended: the SVD, the two eigendecompositions and the two
\* pseudo-inverses query (lwork = -1, nothing factored), then allocate work of
\* exactly the returned size, then execute once, and act on the execute call's
\* status; a solver makes its one backend call, which takes no workspace, and
\* acts on its status; an inverse calls ?getrf and then ?getri once each with a
\* workspace of N*N elements and no query
C11_QueryThenExecute ==
    /\ fn \in QueryDrivers =>
          /\ pc = "query" => calls = <<>>
          /\ pc = "allocwork" => C11_OnlyQueried(fn) /\ loc["work"] = NULL
          /\ pc = "exec" => C11_OnlyQueried(fn) /\ C11_BlockLen("work") = wkopt
          /\ pc \in {"sort", "final", "ret"} => C11_QueriedThenExecuted(fn)
    /\ Returned("ssvd") => (hnd = NoHandles <=> calls[2][3] > 0)
    /\ fn \in Solvers =>
          /\ pc = "exec" => calls = <<>>
          /\ pc \in {"final", "ret"} => calls = << <<BackendRoutine(fn), 0, info>> >>
    /\ fn \in Invs =>
          /\ pc = "getrf" => calls = <<>>
          /\ pc = "getri" => Len(calls) = 1 /\ calls[1][1] = BackendRoutine(fn) \o "rf"
          /\ pc \in {"final", "ret"} =>
                /\ Len(calls) = 2
                /\ calls[1][1] = BackendRoutine(fn) \o "rf"
                /\ calls[2] = <<BackendRoutine(fn) \o "ri", arg.dim1 * arg.dim1, info>>
                /\ C11_BlockLen("WORK") = arg.dim1 * arg.dim1

\* a failed decomposition after a query that asked for three elements
C11_Witness ==
    /\ Returned("ssvd")
    /\ calls = << <<"sgesvd", -1, 0>>, <<"sgesvd", 3, 1>> >>
    /\ C11_BlockLen("work") = 3
    /\ hnd = NoHandles

\* what sortf left in the caller's vectors: the sorted values (in out_vec, or
\* in in_vec when out_vec is NULL) and the emitted indices
Sortf_values == IF loc["out_vec"] # NULL THEN Data(Machine, "out_vec") ELSE Data(Machine, "wr")
Sortf_indices == Data(Machine, "sort_idx")

\* C12 as stated: sortf is stable, two equal input values come out with the
\* smaller original index first, in the sorted records and in the emitted
\* index permutation, for ascending and descending order
C12_StableSort ==
    Returned("sortf") =>
        LET data == Data(Machine, "data")
        IN  \A i \in 1..arg.dim1, j \in 1..arg.dim1 :
                (i < j /\ data[i].val = data[j].val) =>
                    /\ data[i].idx < data[j].idx
                    /\ loc["sort_idx"] # NULL => Sortf_indices[i] < Sortf_indices[j]

\* C12 as amended: sortf orders unequal values in the requested direction and
\* equal values end up next to each other in either relative order; the
\* emitted indices of equal values are different original positions that held
\* that value, so tied eigenpairs stay paired without keeping their order
C12_TiesEitherOrder ==
    Returned("sortf") =>
        LET data == Data(Machine, "data")
            len == arg.dim1
        IN  /\ Len(data) = len
            /\ \A i \in 1..len, j \in 1..len :
                  i < j =>
                    /\ data[i].val # data[j].val =>
                          IF arg.flag # 0 THEN data[i].val > data[j].val
                                          ELSE data[i].val < data[j].val
                    /\ data[i].val = data[j].val =>
                          /\ data[i].idx # data[j].idx
                          /\ \A k \in i..j : data[k].val = data[i].val
            /\ \A i \in 1..len :
                  /\ data[i].idx \in 0..(len - 1)
                  /\ arg.entry[data[i].idx + 1] = data[i].val
                  /\ Sortf_values[i] = data[i].val
                  /\ loc["sort_idx"] # NULL => Sortf_indices[i] = data[i].idx

C12_Witness ==
    /\ Returned("sortf") /\ arg.entry = <<2, 1, 2>> /\ arg.flag = 1
    /\ Sortf_values = <<2, 2, 1>>
    /\ Sortf_indices = <<2, 0, 1>>

C14_Tolerance(f) == IF f = "spinv" THEN 10000000 ELSE 1000000000

\* column i of u after a successful pseudo-inverse is the backend's column,
\* scaled once, by the reciprocal of s[i] exactly when s[i] is above tol(f)
C14_ScaledBy(tol(_)) ==
    (fn \in Pinvs /\ pc = "ret" /\ info = 0) =>
        LET m == arg.dim1
            n == arg.dim2
            k == MIN(m, n)
            s == Data(Machine, "s")
            u == Data(Machine, "u")
            vt == Data(Machine, "vt")
        IN  /\ fault = {}
            /\ Len(s) = k /\ Len(u) = m * k
            /\ \E sd \in Seeds :
                 \A i \in 0..(k - 1), r \in 1..m :
                    u[i * m + r] =
                        << PatOf(ElemSize(fn), m * k, 100 + 10 * sd)[i * m + r],
                           << IF NumOf(fn, s[i + 1]) > tol(fn) THEN "recip" ELSE "same",
                              s[i + 1] >> >>
            /\ \A i \in 0..(k - 1), r \in 1..m :
                    u[i * m + r][2][1] = "recip" => NumOf(fn, s[i + 1]) > tol(fn)
            /\ Data(Machine, "inva") = pinv_product(vt, u, m, n, k)

\* C14: in utility_spinv and utility_dpinv column i of the economy-size U is
\* scaled by 1/s_i when s_i is strictly greater than the tolerance (1e-5 in
\* utility_spinv, 1e-9 in utility_dpinv) and by s_i otherwise, so no scale
\* factor exceeds 1/tolerance; each of the k columns is scaled once, before
\* the one matrix multiply
C14_PinvScaling == C14_ScaledBy(C14_Tolerance)

====
